---- MODULE Spec2Model ----
(***************************************************************************)
(* A model of the WebRTC transport of js-libp2p-webrtc: the address and    *)
(* SDP helpers of sdp.js and the dial sequence of transport.js             *)
(* (src/unnamed/part_000).                                                 *)
(*                                                                         *)
(* Strings the code takes apart (hex fingerprints, multibase strings) are  *)
(* sequences of one-character strings; byte arrays are sequences of        *)
(* numbers in 0..255.  A function of the code that can throw returns a     *)
(* record [err, val]: err.kind = "none" when it returned val.              *)
(***************************************************************************)
EXTENDS Integers, Sequences, FiniteSets, TLC

VARIABLES
    attempts,        \* the dial attempts this run makes (fixed by Init)
    att,             \* att[d]: the locals of the _connect call of attempt d
    listenerThrown,  \* what the last createListener call threw
    filterIn,        \* the array handed to filter (as it is after the call)
    filterOut,       \* what filter returned
    filterDone,      \* whether filter has been called
    call,            \* a call of one of the helpers: [fn, ma, ufrag, desc, config]
    result           \* what the applications of call.fn returned, in order

vars == <<attempts, att, listenerThrown, filterIn, filterOut, filterDone,
          call, result>>

---------------------------------------------------------------------------
(* Program constants *)

HANDSHAKE_TIMEOUT_MS == 10000
WEBRTC_CODE == 280
CERTHASH_CODE == 466

(* Bounds of the model *)

\* longest array handed to filter
MaxAddrs == 4

\* longest digest in a certhash handed to the helpers
MaxDigestLen == 2

\* most lines after the version line in a description handed to munge
MaxLines == 4

\* the dial attempts the transport can be asked for
Dials == {1, 2}

---------------------------------------------------------------------------
(* Errors: the factories of error.js *)

NoErr == [kind |-> "none", msg |-> "", detail |-> ""]

inappropriateMultiaddr(msg) ==
    [kind |-> "InappropriateAddress", msg |-> msg, detail |-> ""]

invalidArgument(msg) ==
    [kind |-> "InvalidArgument", msg |-> msg, detail |-> ""]

unsupportedHashAlgorithm(name) ==
    [kind |-> "UnsupportedHashAlgorithm", msg |-> name, detail |-> ""]

unimplemented(name) ==
    [kind |-> "Unimplemented", msg |-> name, detail |-> ""]

dataChannelError(msg, detail) ==
    [kind |-> "DataChannelError", msg |-> msg, detail |-> detail]

\* an error thrown by a library the code calls (multibase, multihashes)
libraryError(msg) ==
    [kind |-> "Error", msg |-> msg, detail |-> ""]

\* a rejection of one of the external collaborators (engine, noise, upgrader)
externalError(who, what) ==
    [kind |-> who, msg |-> what, detail |-> ""]

Ok(v) == [err |-> NoErr, val |-> v]
Throw(e) == [err |-> e, val |-> <<>>]
Threw(r) == r.err.kind # "none"

---------------------------------------------------------------------------
(* Bytes and text *)

HexDigits == <<"0", "1", "2", "3", "4", "5", "6", "7",
               "8", "9", "a", "b", "c", "d", "e", "f">>

UpperDigits == <<"0", "1", "2", "3", "4", "5", "6", "7",
                 "8", "9", "A", "B", "C", "D", "E", "F">>

IsHexDigit(c) == \E i \in 1..16 : HexDigits[i] = c

HexVal(c) == (CHOOSE i \in 1..16 : HexDigits[i] = c) - 1

\* byte.toString(16).padStart(2, '0')
byteToHex(b) == <<HexDigits[(b \div 16) + 1], HexDigits[(b % 16) + 1]>>

\* String.prototype.toUpperCase, one character
toUpperCase(c) == IF IsHexDigit(c) THEN UpperDigits[HexVal(c) + 1] ELSE c

RECURSIVE hexEncode(_)
hexEncode(bytes) ==
    IF bytes = <<>> THEN <<>>
    ELSE byteToHex(Head(bytes)) \o hexEncode(Tail(bytes))

RECURSIVE hexPairs(_)
hexPairs(chars) ==
    IF chars = <<>> THEN <<>>
    ELSE <<16 * HexVal(chars[1]) + HexVal(chars[2])>>
         \o hexPairs(SubSeq(chars, 3, Len(chars)))

\* base16 decoding: throws on a character outside the alphabet and on an
\* odd number of digits
hexDecode(chars) ==
    IF \E i \in 1..Len(chars) : ~IsHexDigit(chars[i])
    THEN Throw(libraryError("Non-base16 character"))
    ELSE IF Len(chars) % 2 # 0
    THEN Throw(libraryError("Unexpected end of data"))
    ELSE Ok(hexPairs(chars))

\* str.replaceAll(c, '')
RECURSIVE removeAll(_, _)
removeAll(chars, c) ==
    IF chars = <<>> THEN <<>>
    ELSE IF Head(chars) = c THEN removeAll(Tail(chars), c)
    ELSE <<Head(chars)>> \o removeAll(Tail(chars), c)

\* byte-lexicographic order on byte arrays
RECURSIVE bytesLess(_, _)
bytesLess(x, y) ==
    IF y = <<>> THEN FALSE
    ELSE IF x = <<>> THEN TRUE
    ELSE IF Head(x) # Head(y) THEN Head(x) < Head(y)
    ELSE bytesLess(Tail(x), Tail(y))

\* uint8arrayFromString('libp2p-webrtc-noise:')
NoisePrefix == <<108, 105, 98, 112, 50, 112, 45, 119, 101, 98,
                 114, 116, 99, 45, 110, 111, 105, 115, 101, 58>>

---------------------------------------------------------------------------
(* multibase and multihash, as far as the code uses them *)

\* varint of a number below 2^14
varintEncode(n) == IF n < 128 THEN <<n>> ELSE <<128 + (n % 128), n \div 128>>

\* [value, bytes read]; at most two bytes
varintDecode(bytes) ==
    IF bytes[1] < 128 THEN [value |-> bytes[1], read |-> 1]
    ELSE [value |-> (bytes[1] - 128) + 128 * bytes[2], read |-> 2]

\* the table of multihash names the code switches on
multihashName(code) ==
    CASE code = 17  -> "sha1"
      [] code = 18  -> "sha2-256"
      [] code = 19  -> "sha2-512"
      [] code = 22  -> "sha3-256"
      [] code = 213 -> "md5"
      [] OTHER      -> "unknown"

\* multihashes.encode(digest, code)
multihashEncode(digest, code) ==
    varintEncode(code) \o varintEncode(Len(digest)) \o digest

\* multihashes.decode(bytes)
multihashDecode(bytes) ==
    IF Len(bytes) < 2 THEN Throw(libraryError("multihash too short"))
    ELSE
      LET c    == varintDecode(bytes)
          rest == SubSeq(bytes, c.read + 1, Len(bytes))
      IN  IF multihashName(c.value) = "unknown"
          THEN Throw(libraryError("multihash unknown function code"))
          ELSE IF rest = <<>> \/ (Head(rest) >= 128 /\ Len(rest) < 2)
          THEN Throw(libraryError("multihash length inconsistent"))
          ELSE
            LET l      == varintDecode(rest)
                digest == SubSeq(rest, l.read + 1, Len(rest))
            IN  IF Len(digest) # l.value
                THEN Throw(libraryError("multihash length inconsistent"))
                ELSE Ok([name |-> multihashName(c.value),
                         code |-> c.value,
                         digest |-> digest])

\* the base16 branch of the multibase codecs: prefix "f", lower-case digits
base16Encode(bytes) == <<"f">> \o hexEncode(bytes)

\* mbdecoder.decode: the composed decoder picks the codec by the prefix
mbdecode(str) ==
    IF str = <<>> \/ Head(str) # "f"
    THEN Throw(libraryError("Unable to decode multibase string"))
    ELSE hexDecode(Tail(str))

---------------------------------------------------------------------------
(* Multiaddrs: a sequence of components [code, name, value]; the value is  *)
(* a sequence of text chunks (empty for a component without a value).      *)

protoCodes(ma) == [i \in 1..Len(ma) |-> ma[i].code]

protoNames(ma) == [i \in 1..Len(ma) |-> ma[i].name]

includes(seq, x) == \E i \in 1..Len(seq) : seq[i] = x

\* ma.getPeerId(): the value of the last p2p component, null (<<>>) without one
getPeerId(ma) ==
    LET ids == SelectSeq(ma, LAMBDA c : c.code = 421)
    IN  IF ids = <<>> THEN <<>> ELSE ids[Len(ids)].value

String_toUpperCase(w) ==
    CASE w = "ip4"     -> "IP4"
      [] w = "ip6"     -> "IP6"
      [] w = "md5"     -> "MD5"
      [] w = "sha-256" -> "SHA-256"
      [] w = "sha-512" -> "SHA-512"
      [] OTHER         -> w

ipv(ma) ==
    LET ips == SelectSeq(protoNames(ma), LAMBDA n : n \in {"ip4", "ip6"})
    IN  IF ips # <<>> THEN String_toUpperCase(Head(ips)) ELSE "IP6"

\* ma.toOptions().host / .port of an address that starts /ip/<host>/udp/<port>
ip(ma) == ma[1].value[1]

port(ma) == ma[2].value[1]

\* mutant: without a certhash component the undefined value is returned
certhash_NoThrow(ma) ==
    LET tups == SelectSeq(ma, LAMBDA c : c.code = CERTHASH_CODE)
    IN  IF tups # <<>> THEN Ok(tups[1].value) ELSE Ok(<<>>)

certhash(ma) ==
    LET tups == SelectSeq(ma, LAMBDA c : c.code = CERTHASH_CODE)
    IN  IF tups # <<>> /\ tups[1].value # <<>>
        THEN Ok(tups[1].value)
        ELSE Throw(inappropriateMultiaddr(
                 "Couldn't find a certhash component of multiaddr:"))

\* fp.match(/.{1,2}/g).join(':')
RECURSIVE joinPairs(_)
joinPairs(chars) ==
    IF Len(chars) <= 2 THEN chars
    ELSE SubSeq(chars, 1, 2) \o <<":">> \o joinPairs(SubSeq(chars, 3, Len(chars)))

\* mutant: the switch has no default, the prefix stays empty
certhashToFingerprint_NoDefault(ma) ==
    LET certhash_value == certhash(ma)
    IN  IF Threw(certhash_value) THEN certhash_value
        ELSE
          LET mbdecoded == mbdecode(certhash_value.val)
          IN  IF Threw(mbdecoded) THEN mbdecoded
              ELSE
                LET mhdecoded == multihashDecode(mbdecoded.val)
                IN  IF Threw(mhdecoded) THEN mhdecoded
                    ELSE
                      LET name   == mhdecoded.val.name
                          prefix == CASE name = "md5"      -> "md5"
                                      [] name = "sha2-256" -> "sha-256"
                                      [] name = "sha2-512" -> "sha-512"
                                      [] OTHER             -> ""
                          fp     == hexEncode(mhdecoded.val.digest)
                          fpSdp  == joinPairs(fp)
                      IN  IF fp = <<>>
                          THEN Throw(libraryError("TypeError: match is null"))
                          ELSE Ok([display |-> <<String_toUpperCase(prefix), " ">>
                                       \o [i \in 1..Len(fpSdp) |-> toUpperCase(fpSdp[i])],
                                   fp |-> fp])

\* [display string, fp]: fp is the lower-case hex text of the digest
certhashToFingerprint(ma) ==
    LET certhash_value == certhash(ma)
    IN  IF Threw(certhash_value) THEN certhash_value
        ELSE
          LET mbdecoded == mbdecode(certhash_value.val)
          IN  IF Threw(mbdecoded) THEN mbdecoded
              ELSE
                LET mhdecoded == multihashDecode(mbdecoded.val)
                IN  IF Threw(mhdecoded) THEN mhdecoded
                    ELSE
                      LET name   == mhdecoded.val.name
                          prefix == CASE name = "md5"      -> "md5"
                                      [] name = "sha2-256" -> "sha-256"
                                      [] name = "sha2-512" -> "sha-512"
                                      [] OTHER             -> ""
                          fp     == hexEncode(mhdecoded.val.digest)
                          fpSdp  == joinPairs(fp)
                      IN  IF prefix = ""
                          THEN Throw(unsupportedHashAlgorithm(name))
                          ELSE IF fp = <<>>
                          THEN Throw(libraryError("TypeError: match is null"))
                          ELSE Ok([display |-> <<String_toUpperCase(prefix), " ">>
                                       \o [i \in 1..Len(fpSdp) |-> toUpperCase(fpSdp[i])],
                                   fp |-> fp])

---------------------------------------------------------------------------
(* SDP: a description is [type, hasSdp, sdp]; the text is a sequence of    *)
(* lines, each a sequence of chunks and each ended by a newline.           *)

NoDescription == [type |-> "none", hasSdp |-> FALSE, sdp |-> <<>>]

ma2sdp(ma, ufrag) ==
    LET CERTFP == certhashToFingerprint(ma)
        IP == ip(ma)
        IPVERSION == ipv(ma)
        PORT == port(ma)
    IN  IF Threw(CERTFP) THEN CERTFP
        ELSE Ok(<< <<"v=0">>,
                   <<"o=- 0 0 IN ", IPVERSION, " ", IP>>,
                   <<"s=-">>,
                   <<"c=IN ", IPVERSION, " ", IP>>,
                   <<"t=0 0">>,
                   <<"a=ice-lite">>,
                   <<"m=application ", PORT, " UDP/DTLS/SCTP webrtc-datachannel">>,
                   <<"a=mid:0">>,
                   <<"a=setup:passive">>,
                   <<"a=ice-ufrag:", ufrag>>,
                   <<"a=ice-pwd:", ufrag>>,
                   <<"a=fingerprint:">> \o CERTFP.val.display,
                   <<"a=sctp-port:5000">>,
                   <<"a=max-message-size:100000">>,
                   <<"a=candidate:1467250027 1 UDP 1467250027 ", IP, " ", PORT,
                     " typ host", "\r">> >>)

\* mutant: the description is tagged as an offer
fromMultiAddr_TypeOffer(ma, ufrag) ==
    LET text == ma2sdp(ma, ufrag)
    IN  IF Threw(text) THEN text
        ELSE Ok([type |-> "offer", hasSdp |-> TRUE, sdp |-> text.val])

fromMultiAddr(ma, ufrag) ==
    LET text == ma2sdp(ma, ufrag)
    IN  IF Threw(text) THEN text
        ELSE Ok([type |-> "answer", hasSdp |-> TRUE, sdp |-> text.val])

\* mutant: every line that starts with key is replaced (replaceAll)
replaceFirst_All(lines, key, ufrag) ==
    [i \in 1..Len(lines) |->
        IF i >= 2 /\ lines[i] # <<>> /\ lines[i][1] = key THEN <<key, ufrag>>
        ELSE lines[i]]

\* text.replace(/\n<key>[^\n]*\n/, '\n' + key + ufrag + '\n'): the first line
\* that starts with key and is not the first line of the text
replaceFirst(lines, key, ufrag) ==
    LET hits == {i \in 2..Len(lines) : lines[i] # <<>> /\ lines[i][1] = key}
    IN  IF hits = {} THEN lines
        ELSE LET first == CHOOSE i \in hits : \A j \in hits : i <= j
             IN  [lines EXCEPT ![first] = <<key, ufrag>>]

\* mutant: a description without sdp is given an empty one and returned
munge_EmptyBody(desc, ufrag) ==
    IF desc.hasSdp /\ desc.sdp # <<>>
    THEN Ok([desc EXCEPT !.sdp =
                replaceFirst(replaceFirst(desc.sdp, "a=ice-ufrag:", ufrag),
                             "a=ice-pwd:", ufrag)])
    ELSE Ok([desc EXCEPT !.hasSdp = TRUE, !.sdp = <<>>])

munge(desc, ufrag) ==
    IF desc.hasSdp /\ desc.sdp # <<>>
    THEN Ok([desc EXCEPT !.sdp =
                replaceFirst(replaceFirst(desc.sdp, "a=ice-ufrag:", ufrag),
                             "a=ice-pwd:", ufrag)])
    ELSE Throw(invalidArgument("Can't munge a missing SDP"))

---------------------------------------------------------------------------
(* The transport's pure operations *)

\* mutant: the peer identity is not looked at
validMa_PeerIdNotChecked(ma) ==
    LET codes == protoCodes(ma)
    IN  includes(codes, WEBRTC_CODE) /\ includes(codes, CERTHASH_CODE)

validMa(ma) ==
    LET codes == protoCodes(ma)
    IN  /\ includes(codes, WEBRTC_CODE)
        /\ includes(codes, CERTHASH_CODE)
        /\ getPeerId(ma) # <<>>

filter(multiaddrs) == SelectSeq(multiaddrs, validMa)

\* pc.getConfiguration() is [hasCertificates, certificates]; a certificate is
\* [fingerprints]; a fingerprint is [algorithm, value]
generateNoisePrologue(config, ma) ==
    IF config.hasCertificates /\ config.certificates = <<>>
    THEN Throw(invalidArgument("no local certificate"))
    ELSE IF \/ ~config.hasCertificates
            \/ config.certificates[1].fingerprints = <<>>
    THEN Throw(invalidArgument("no fingerprint on local certificate"))
    ELSE
      LET localFingerprint == config.certificates[1].fingerprints[1]
          localFpString    == removeAll(localFingerprint.value, ":")
          localFpArray     == hexDecode(localFpString)
      IN  IF Threw(localFpArray) THEN localFpArray
          ELSE IF localFingerprint.algorithm # "sha-256"
          THEN Throw(unsupportedHashAlgorithm(
                   IF localFingerprint.algorithm = "" THEN "none"
                   ELSE localFingerprint.algorithm))
          ELSE
            LET local == multihashEncode(localFpArray.val, 18)
                ch    == certhash(ma)
            IN  IF Threw(ch) THEN ch
                ELSE LET remote == mbdecode(ch.val)
                     IN  IF Threw(remote) THEN remote
                         ELSE Ok(NoisePrefix \o local \o remote.val)

---------------------------------------------------------------------------
(* The values the environment supplies *)

IP4(host) == [code |-> 4, name |-> "ip4", value |-> <<host>>]
UDP(p)    == [code |-> 273, name |-> "udp", value |-> <<p>>]
WEBRTC    == [code |-> WEBRTC_CODE, name |-> "webrtc", value |-> <<>>]
CERTHASH(h) == [code |-> CERTHASH_CODE, name |-> "certhash", value |-> h]
P2P(id)   == [code |-> 421, name |-> "p2p", value |-> <<id>>]

RemoteDigest == <<20, 169>>

Hash256 == base16Encode(multihashEncode(RemoteDigest, 18))
HashMd5 == base16Encode(multihashEncode(RemoteDigest, 213))
HashSha1 == base16Encode(multihashEncode(RemoteDigest, 17))

PeerIdText == "12D3KooWGDMw"

\* the four addresses of the filter test, and two more certhash algorithms
MaNoPeerId   == <<IP4("1.2.3.4"), UDP("1234"), WEBRTC, CERTHASH(Hash256)>>
MaComplete   == <<IP4("1.2.3.4"), UDP("1234"), WEBRTC, CERTHASH(Hash256),
                  P2P(PeerIdText)>>
MaNoCerthash == <<IP4("1.2.3.4"), UDP("1234"), WEBRTC, P2P(PeerIdText)>>
MaNoWebrtc   == <<IP4("1.2.3.4"), UDP("1234"), CERTHASH(Hash256),
                  P2P(PeerIdText)>>
MaMd5        == <<IP4("1.2.3.4"), UDP("1234"), WEBRTC, CERTHASH(HashMd5),
                  P2P(PeerIdText)>>
MaSha1       == <<IP4("1.2.3.4"), UDP("1234"), WEBRTC, CERTHASH(HashSha1),
                  P2P(PeerIdText)>>

Multiaddrs == {MaNoPeerId, MaComplete, MaNoCerthash, MaNoWebrtc, MaMd5, MaSha1}

\* certificates RTCPeerConnection.generateCertificate({hash: 'SHA-256'}) can
\* produce: one fingerprint below the remote one, one above it
Certificate(value) ==
    [fingerprints |-> <<[algorithm |-> "sha-256", value |-> value]>>]

Certificates == {Certificate(<<"0", "a", ":", "1", "1">>),
                 Certificate(<<"f", "4", ":", "1", "0">>)}

\* the values genUuid().replaceAll('-', '') can produce
Ufrags == {"8f14e45f", "c9f0f895"}

\* offers createOffer can resolve with: one media section, two media
\* sections, and a description without sdp
OfferOne ==
    [type |-> "offer", hasSdp |-> TRUE,
     sdp |-> << <<"v=0", "\r">>,
                <<"m=application 9 UDP/DTLS/SCTP webrtc-datachannel", "\r">>,
                <<"a=ice-ufrag:", "Zq1x", "\r">>,
                <<"a=ice-pwd:", "engine-generated-pwd", "\r">>,
                <<"a=fingerprint:", "sha-256 0A:11", "\r">> >>]

OfferTwo ==
    [type |-> "offer", hasSdp |-> TRUE,
     sdp |-> << <<"v=0", "\r">>,
                <<"m=application 9 UDP/DTLS/SCTP webrtc-datachannel", "\r">>,
                <<"a=ice-ufrag:", "Zq1x", "\r">>,
                <<"a=ice-pwd:", "engine-generated-pwd", "\r">>,
                <<"m=application 9 UDP/DTLS/SCTP webrtc-datachannel", "\r">>,
                <<"a=ice-ufrag:", "Zq1x", "\r">>,
                <<"a=ice-pwd:", "engine-generated-pwd", "\r">> >>]

OfferNoSdp == [type |-> "offer", hasSdp |-> FALSE, sdp |-> <<>>]

Offers == {OfferOne, OfferTwo, OfferNoSdp}

\* what a call of the WebRTC engine can reject with
EngineError(step) == externalError("EngineError", step)

\* what noise.secureInbound and upgrader.upgradeOutbound can reject with
NoiseErrors == {externalError("InvalidCryptoExchangeError", "handshake failed"),
                externalError("UnexpectedPeerError", "unexpected peer")}

UpgradeErrors == {externalError("UpgradeError", "upgrade failed")}

\* the text of the events the handshake data channel can fire as error
ErrorEvents == {"[object RTCErrorEvent]"}

\* the options createListener can be called with
ListenerOptions == {"undefined", "upgrader"}

\* the configurations of the peer connections _connect creates
Configurations ==
    {[hasCertificates |-> TRUE, certificates |-> <<c>>] : c \in Certificates}

\* fromMultiAddr and generateNoisePrologue over the values above, computed
\* once
answerFor == [ma \in Multiaddrs, ufrag \in Ufrags |-> fromMultiAddr(ma, ufrag)]

prologueFor ==
    [config \in Configurations, ma \in Multiaddrs |-> generateNoisePrologue(config, ma)]

\* no helper is being called
NoCall == [fn |-> "none", ma |-> <<>>, ufrag |-> "", desc |-> NoDescription,
           config |-> [hasCertificates |-> FALSE, certificates |-> <<>>]]

---------------------------------------------------------------------------
(* One dial attempt: the locals of _connect, and what it has done so far *)

NoPromise == [state |-> "none", reason |-> NoErr]

IdleAttempt ==
    [pc                |-> "idle",     \* the await _connect is suspended at
     ma                |-> <<>>,
     err               |-> NoErr,      \* what dial rejected with
     config            |-> [hasCertificates |-> FALSE, certificates |-> <<>>],
     promise           |-> NoPromise,  \* dataChannelOpenPromise
     timer             |-> [state |-> "unset", delay |-> 0],
     readyState        |-> "none",     \* handshakeDataChannel.readyState
     ufrag             |-> "",
     offer             |-> NoDescription,
     localDescription  |-> NoDescription,
     answer            |-> NoDescription,
     remoteDescription |-> NoDescription,
     prologue          |-> <<>>,
     maConn            |-> <<>>,
     upgradeArg        |-> <<>>,       \* the maConn handed to upgradeOutbound
     connection        |-> <<>>,       \* what dial resolved with
     \* history: what the attempt and its environment have done
     calls             |-> <<>>,       \* the external operations invoked
     first             |-> "none",     \* the first of open, error, timeout
     firstAt           |-> "none",     \* where _connect was when it fired
     errored           |-> FALSE,      \* the error event has fired
     fault             |-> FALSE,      \* the environment did not cooperate
     rejection         |-> NoErr]      \* what an awaited call rejected with

Fail(a, e) == [a EXCEPT !.pc = "thrown", !.err = e]

Invoke(a, op) == [a EXCEPT !.calls = Append(@, op)]

\* mutant: resolve settles the promise again
resolve_Resettles(p) == [state |-> "resolved", reason |-> NoErr]

\* mutant: reject settles the promise again
reject_Resettles(p, e) == [state |-> "rejected", reason |-> e]

\* p-defer: a promise settles once
resolve(p) ==
    IF p.state = "pending" THEN [state |-> "resolved", reason |-> NoErr] ELSE p

reject(p, e) ==
    IF p.state = "pending" THEN [state |-> "rejected", reason |-> e] ELSE p

clearTimeout(t) ==
    IF t.state = "armed" THEN [t EXCEPT !.state = "cleared"] ELSE t

noteEvent(a, ev) ==
    IF a.first = "none" THEN [a EXCEPT !.first = ev, !.firstAt = a.pc] ELSE a

\* _connect from the handshake on: the prologue, the connection wrapper and
\* the call of noise.secureInbound
afterDataChannelOpen(a) ==
    LET fingerprintsPrologue == prologueFor[a.config, a.ma]
    IN  IF Threw(fingerprintsPrologue) THEN Fail(a, fingerprintsPrologue.err)
        ELSE Invoke([a EXCEPT !.prologue = fingerprintsPrologue.val,
                              !.maConn = <<[remoteAddr |-> a.ma]>>,
                              !.pc = "secureInbound"],
                    "secureInbound")

\* await dataChannelOpenPromise.promise
awaitDataChannelOpenPromise(a) ==
    CASE a.promise.state = "resolved" -> afterDataChannelOpen(a)
      [] a.promise.state = "rejected" -> Fail(a, a.promise.reason)
      [] OTHER -> [a EXCEPT !.pc = "dataChannelOpenPromise"]

\* mutant: the attempt is not resumed when a handler settles the promise
wake_Lost(a) == a

\* the continuation of _connect runs as a microtask of the handler that
\* settled the promise
wake(a) ==
    IF a.pc = "dataChannelOpenPromise" THEN awaitDataChannelOpenPromise(a)
    ELSE a

\* handshakeDataChannel.onopen
onopen(a) ==
    [a EXCEPT !.timer = clearTimeout(a.timer),
              !.promise = resolve(a.promise)]

\* handshakeDataChannel.onerror
onerror(a, ev) ==
    [a EXCEPT !.timer = clearTimeout(a.timer),
              !.promise = reject(a.promise,
                                 dataChannelError("error opening datachannel: ", ev))]

\* mutant: the expiry ends the attempt wherever it is
ontimeout_Aborts(a) ==
    Fail([a EXCEPT !.promise = reject(a.promise,
                     dataChannelError("data channel was never opened: state: ",
                                      a.readyState))],
         dataChannelError("data channel was never opened: state: ", a.readyState))

\* the callback of setTimeout
ontimeout(a) ==
    [a EXCEPT !.promise = reject(a.promise,
                  dataChannelError("data channel was never opened: state: ",
                                   a.readyState))]

---------------------------------------------------------------------------
(* _connect, cut at its awaits: each operator is the code that runs from   *)
(* one suspension to the next                                              *)

\* mutant: the peer id is looked at after the certificate was requested
connect_PeerIdCheckedLate(a, ma) ==
    LET b == Invoke([a EXCEPT !.ma = ma], "generateCertificate")
    IN  IF getPeerId(ma) = <<>>
        THEN Fail(b, inappropriateMultiaddr("we need to have the remote's PeerId"))
        ELSE [b EXCEPT !.pc = "generateCertificate"]

\* entry of dial/_connect, up to await generateCertificate
connect(a, ma) ==
    LET rps == getPeerId(ma)
        b   == [a EXCEPT !.ma = ma]
    IN  IF rps = <<>>
        THEN Fail(b, inappropriateMultiaddr("we need to have the remote's PeerId"))
        ELSE Invoke([b EXCEPT !.pc = "generateCertificate"], "generateCertificate")

\* new RTCPeerConnection, the deferred, the data channel, the timer, the
\* handlers, up to await createOffer
afterGenerateCertificate(a, certificate) ==
    Invoke(Invoke([a EXCEPT
                     !.config = [hasCertificates |-> TRUE,
                                 certificates |-> <<certificate>>],
                     !.promise = [state |-> "pending", reason |-> NoErr],
                     !.readyState = "connecting",
                     !.timer = [state |-> "armed", delay |-> HANDSHAKE_TIMEOUT_MS],
                     !.pc = "createOffer"],
                  "createDataChannel"),
           "createOffer")

\* mutant: setLocalDescription is not awaited, the answer is handed to the
\* engine while the local description is still being installed
afterCreateOffer_NotAwaited(a, offerSdp, ufrag) ==
    LET munged == munge(offerSdp, ufrag)
        b      == [a EXCEPT !.ufrag = ufrag, !.offer = offerSdp]
    IN  IF Threw(munged) THEN Fail(b, munged.err)
        ELSE IF Threw(answerFor[a.ma, ufrag]) THEN Fail(b, answerFor[a.ma, ufrag].err)
        ELSE Invoke(Invoke([b EXCEPT !.offer = munged.val,
                                     !.answer = answerFor[a.ma, ufrag].val,
                                     !.pc = "setRemoteDescription"],
                           "setLocalDescription"),
                    "setRemoteDescription")

\* the ufrag and the munged offer, up to await setLocalDescription
afterCreateOffer(a, offerSdp, ufrag) ==
    LET munged == munge(offerSdp, ufrag)
        b      == [a EXCEPT !.ufrag = ufrag, !.offer = offerSdp]
    IN  IF Threw(munged) THEN Fail(b, munged.err)
        ELSE Invoke([b EXCEPT !.offer = munged.val,
                              !.pc = "setLocalDescription"],
                    "setLocalDescription")

\* mutant: the answer is synthesized with a ufrag of its own
afterSetLocalDescription_OtherUfrag(a) ==
    LET answerSdp == answerFor[a.ma, CHOOSE u \in Ufrags : u # a.ufrag]
        b         == [a EXCEPT !.localDescription = a.offer]
    IN  IF Threw(answerSdp) THEN Fail(b, answerSdp.err)
        ELSE Invoke([b EXCEPT !.answer = answerSdp.val,
                              !.pc = "setRemoteDescription"],
                    "setRemoteDescription")

\* the synthesized answer, up to await setRemoteDescription
afterSetLocalDescription(a) ==
    LET answerSdp == answerFor[a.ma, a.ufrag]
        b         == [a EXCEPT !.localDescription = a.offer]
    IN  IF Threw(answerSdp) THEN Fail(b, answerSdp.err)
        ELSE Invoke([b EXCEPT !.answer = answerSdp.val,
                              !.pc = "setRemoteDescription"],
                    "setRemoteDescription")

\* mutant: the deferred and the handlers are set up here, after the remote
\* description was installed; what the channel fired before is not seen
afterSetRemoteDescription_LateHandlers(a) ==
    [a EXCEPT !.remoteDescription = a.answer,
              !.promise = [state |-> "pending", reason |-> NoErr],
              !.pc = "dataChannelOpenPromise"]

\* up to the wait for the data channel, or past it when the promise has
\* settled already
afterSetRemoteDescription(a) ==
    awaitDataChannelOpenPromise([a EXCEPT !.remoteDescription = a.answer])

\* up to await upgradeOutbound
afterSecureInbound(a) ==
    Invoke([a EXCEPT !.upgradeArg = a.maConn, !.pc = "upgradeOutbound"],
           "upgradeOutbound")

\* return upgraded; dial returns it
afterUpgradeOutbound(a) ==
    [a EXCEPT !.connection = <<[remoteAddr |-> a.upgradeArg[1].remoteAddr]>>,
              !.pc = "returned"]

\* mutant: the rejection is wrapped in an error of the transport
awaitRejected_Translated(a, e) == Fail(a, dataChannelError("data", e.msg))

\* mutant: a rejected call is made a second time
awaitRejected_Retry(a, e) ==
    IF Cardinality({i \in 1..Len(a.calls) : a.calls[i] = a.pc}) < 2
    THEN Invoke(a, a.pc)
    ELSE Fail(a, e)

\* an awaited call rejected: the await throws and _connect, then dial, reject
awaitRejected(a, e) == Fail(a, e)

\* history: the environment rejected a call with e
delivered(a, e) == [a EXCEPT !.fault = TRUE, !.rejection = e]

---------------------------------------------------------------------------
(* Actions *)

others == <<attempts, listenerThrown, filterIn, filterOut, filterDone,
            call, result>>

Dial(d, ma) ==
    /\ att[d].pc = "idle"
    /\ att' = [att EXCEPT ![d] = connect(att[d], ma)]
    /\ UNCHANGED others

GenerateCertificateResolves(d, certificate) ==
    /\ att[d].pc = "generateCertificate"
    /\ att' = [att EXCEPT ![d] = afterGenerateCertificate(att[d], certificate)]
    /\ UNCHANGED others

GenerateCertificateRejects(d) ==
    /\ att[d].pc = "generateCertificate"
    /\ att' = [att EXCEPT ![d] =
                 awaitRejected(delivered(att[d], EngineError("generateCertificate")), EngineError("generateCertificate"))]
    /\ UNCHANGED others

CreateOfferResolves(d, offerSdp, ufrag) ==
    /\ att[d].pc = "createOffer"
    /\ att' = [att EXCEPT ![d] =
                 [afterCreateOffer(att[d], offerSdp, ufrag)
                    EXCEPT !.fault = @ \/ ~offerSdp.hasSdp]]
    /\ UNCHANGED others

CreateOfferRejects(d) ==
    /\ att[d].pc = "createOffer"
    /\ att' = [att EXCEPT ![d] =
                 awaitRejected(delivered(att[d], EngineError("createOffer")), EngineError("createOffer"))]
    /\ UNCHANGED others

SetLocalDescriptionResolves(d) ==
    /\ att[d].pc = "setLocalDescription"
    /\ att' = [att EXCEPT ![d] = afterSetLocalDescription(att[d])]
    /\ UNCHANGED others

SetLocalDescriptionRejects(d) ==
    /\ att[d].pc = "setLocalDescription"
    /\ att' = [att EXCEPT ![d] =
                 awaitRejected(delivered(att[d], EngineError("setLocalDescription")), EngineError("setLocalDescription"))]
    /\ UNCHANGED others

SetRemoteDescriptionResolves(d) ==
    /\ att[d].pc = "setRemoteDescription"
    /\ att' = [att EXCEPT ![d] = afterSetRemoteDescription(att[d])]
    /\ UNCHANGED others

SetRemoteDescriptionRejects(d) ==
    /\ att[d].pc = "setRemoteDescription"
    /\ att' = [att EXCEPT ![d] =
                 awaitRejected(delivered(att[d], EngineError("setRemoteDescription")), EngineError("setRemoteDescription"))]
    /\ UNCHANGED others

\* the data channel opens: the engine sets readyState and fires open
OnOpen(d) ==
    /\ att[d].readyState = "connecting"
    /\ att' = [att EXCEPT ![d] =
                 wake(onopen(noteEvent([att[d] EXCEPT !.readyState = "open"],
                                       "open")))]
    /\ UNCHANGED others

\* the data channel fires error
OnError(d, ev) ==
    /\ att[d].readyState # "none"
    /\ ~att[d].errored
    /\ att' = [att EXCEPT ![d] =
                 wake(onerror(noteEvent([att[d] EXCEPT !.errored = TRUE,
                                                       !.fault = TRUE],
                                        "error"),
                              ev))]
    /\ UNCHANGED others

\* mutant: one timer on the transport, shared by its attempts
OnTimeout_SharedTimer(d) ==
    /\ att[d].timer.state = "armed"
    /\ att' = [e \in Dials |->
                 IF att[e].timer.state = "armed"
                 THEN wake(ontimeout(noteEvent([att[e] EXCEPT !.timer.state = "fired",
                                                             !.fault = TRUE],
                                               "timeout")))
                 ELSE att[e]]
    /\ UNCHANGED others

\* HANDSHAKE_TIMEOUT_MS have passed since the timer was armed
OnTimeout(d) ==
    /\ att[d].timer.state = "armed"
    /\ att' = [att EXCEPT ![d] =
                 wake(ontimeout(noteEvent([att[d] EXCEPT !.timer.state = "fired",
                                                         !.fault = TRUE],
                                          "timeout")))]
    /\ UNCHANGED others

\* the data channel closes without an error event
ChannelClose(d) ==
    /\ att[d].readyState \in {"connecting", "open", "closing"}
    /\ att' = [att EXCEPT ![d] =
                 [@ EXCEPT !.readyState = IF @ = "closing" THEN "closed" ELSE "closing",
                           !.fault = @ \/ att[d].readyState = "connecting"]]
    /\ UNCHANGED others

SecureInboundResolves(d) ==
    /\ att[d].pc = "secureInbound"
    /\ att' = [att EXCEPT ![d] = afterSecureInbound(att[d])]
    /\ UNCHANGED others

SecureInboundRejects(d, e) ==
    /\ att[d].pc = "secureInbound"
    /\ att' = [att EXCEPT ![d] = awaitRejected(delivered(att[d], e), e)]
    /\ UNCHANGED others

UpgradeOutboundResolves(d) ==
    /\ att[d].pc = "upgradeOutbound"
    /\ att' = [att EXCEPT ![d] = afterUpgradeOutbound(att[d])]
    /\ UNCHANGED others

UpgradeOutboundRejects(d, e) ==
    /\ att[d].pc = "upgradeOutbound"
    /\ att' = [att EXCEPT ![d] = awaitRejected(delivered(att[d], e), e)]
    /\ UNCHANGED others

\* mutant: a peer connection is set up before the throw
CreateListener_PartialSetup(options) ==
    /\ listenerThrown' = unimplemented("WebRTCTransport.createListener")
    /\ att' = [att EXCEPT ![1].config.hasCertificates = TRUE]
    /\ UNCHANGED <<attempts, filterIn, filterOut, filterDone, call, result>>

CreateListener(options) ==
    /\ listenerThrown' = unimplemented("WebRTCTransport.createListener")
    /\ UNCHANGED <<attempts, att, filterIn, filterOut, filterDone, call, result>>

Filter ==
    /\ ~filterDone
    /\ filterOut' = filter(filterIn)
    /\ filterDone' = TRUE
    /\ UNCHANGED <<attempts, att, listenerThrown, filterIn, call, result>>

---------------------------------------------------------------------------
(* Specifications *)

\* genUuid().replaceAll('-', ''): a value that no call has returned before
genUuid == Ufrags \ {att[d].ufrag : d \in Dials}

\* the transport after construction, asked for one dial
Init ==
    /\ attempts = {1}
    /\ att = [d \in Dials |-> IdleAttempt]
    /\ listenerThrown = NoErr
    /\ filterIn = <<MaNoPeerId, MaComplete, MaNoCerthash, MaNoWebrtc>>
    /\ filterOut = <<>>
    /\ filterDone = FALSE
    /\ call = NoCall
    /\ result = <<>>

\* an awaited call of attempt d settles
Settles(d) ==
    \/ \E certificate \in Certificates : GenerateCertificateResolves(d, certificate)
    \/ GenerateCertificateRejects(d)
    \/ \E offerSdp \in Offers, ufrag \in genUuid : CreateOfferResolves(d, offerSdp, ufrag)
    \/ CreateOfferRejects(d)
    \/ SetLocalDescriptionResolves(d)
    \/ SetLocalDescriptionRejects(d)
    \/ SetRemoteDescriptionResolves(d)
    \/ SetRemoteDescriptionRejects(d)
    \/ SecureInboundResolves(d)
    \/ \E e \in NoiseErrors : SecureInboundRejects(d, e)
    \/ UpgradeOutboundResolves(d)
    \/ \E e \in UpgradeErrors : UpgradeOutboundRejects(d, e)

Next ==
    \/ \E d \in attempts, ma \in Multiaddrs : Dial(d, ma)
    \/ \E d \in attempts, certificate \in Certificates :
         GenerateCertificateResolves(d, certificate)
    \/ \E d \in attempts : GenerateCertificateRejects(d)
    \/ \E d \in attempts, offerSdp \in Offers, ufrag \in genUuid :
         CreateOfferResolves(d, offerSdp, ufrag)
    \/ \E d \in attempts : CreateOfferRejects(d)
    \/ \E d \in attempts : SetLocalDescriptionResolves(d)
    \/ \E d \in attempts : SetLocalDescriptionRejects(d)
    \/ \E d \in attempts : SetRemoteDescriptionResolves(d)
    \/ \E d \in attempts : SetRemoteDescriptionRejects(d)
    \/ \E d \in attempts : OnOpen(d)
    \/ \E d \in attempts, ev \in ErrorEvents : OnError(d, ev)
    \/ \E d \in attempts : OnTimeout(d)
    \/ \E d \in attempts : ChannelClose(d)
    \/ \E d \in attempts : SecureInboundResolves(d)
    \/ \E d \in attempts, e \in NoiseErrors : SecureInboundRejects(d, e)
    \/ \E d \in attempts : UpgradeOutboundResolves(d)
    \/ \E d \in attempts, e \in UpgradeErrors : UpgradeOutboundRejects(d, e)
    \/ \E options \in ListenerOptions : CreateListener(options)
    \/ Filter

Spec == Init /\ [][Next]_vars

\* the engine, the handshake and the upgrader answer every call, and a data
\* channel that can open does
LiveSpec ==
    /\ Spec
    /\ \A d \in Dials : WF_vars(Settles(d)) /\ WF_vars(OnOpen(d))

\* two dials on one transport, each of an address with or without a peer
\* identity, with one certificate, and an offer with or without sdp
PairAddrs == {MaComplete, MaNoPeerId}

PairCertificates == {Certificate(<<"f", "4", ":", "1", "0">>)}

PairOffers == {OfferOne, OfferTwo, OfferNoSdp}

PairInit ==
    /\ attempts = Dials
    /\ att = [d \in Dials |-> IdleAttempt]
    /\ listenerThrown = NoErr
    /\ filterIn = <<>>
    /\ filterOut = <<>>
    /\ filterDone = TRUE
    /\ call = NoCall
    /\ result = <<>>

PairNext ==
    \/ \E d \in attempts, ma \in PairAddrs : Dial(d, ma)
    \/ \E d \in attempts, certificate \in PairCertificates :
         GenerateCertificateResolves(d, certificate)
    \/ \E d \in attempts : GenerateCertificateRejects(d)
    \/ \E d \in attempts, offerSdp \in PairOffers, ufrag \in genUuid :
         CreateOfferResolves(d, offerSdp, ufrag)
    \/ \E d \in attempts : CreateOfferRejects(d)
    \/ \E d \in attempts : SetLocalDescriptionResolves(d)
    \/ \E d \in attempts : SetLocalDescriptionRejects(d)
    \/ \E d \in attempts : SetRemoteDescriptionResolves(d)
    \/ \E d \in attempts : SetRemoteDescriptionRejects(d)
    \/ \E d \in attempts : OnOpen(d)
    \/ \E d \in attempts, ev \in ErrorEvents : OnError(d, ev)
    \/ \E d \in attempts : OnTimeout(d)
    \/ \E d \in attempts : SecureInboundResolves(d)
    \/ \E d \in attempts, e \in NoiseErrors : SecureInboundRejects(d, e)
    \/ \E d \in attempts : UpgradeOutboundResolves(d)
    \/ \E d \in attempts, e \in UpgradeErrors : UpgradeOutboundRejects(d, e)

PairSpec == PairInit /\ [][PairNext]_vars

\* filter applied to every array of at most MaxAddrs addresses
RECURSIVE SeqsUpTo(_, _)
SeqsUpTo(S, n) ==
    IF n = 0 THEN {<<>>}
    ELSE LET shorter == SeqsUpTo(S, n - 1)
         IN  shorter \cup {Append(q, x) : q \in shorter, x \in S}

FilterInit ==
    /\ attempts = {}
    /\ att = [d \in Dials |-> IdleAttempt]
    /\ listenerThrown = NoErr
    /\ filterIn \in SeqsUpTo(Multiaddrs, MaxAddrs)
    /\ filterOut = <<>>
    /\ filterDone = FALSE
    /\ call = NoCall
    /\ result = <<>>

FilterNext == Filter

FilterSpec == FilterInit /\ [][FilterNext]_vars

---------------------------------------------------------------------------
(* The helpers of sdp.js and generateNoisePrologue, each applied to one    *)
(* argument list                                                           *)

\* bytes whose hex text needs padding, has letters, is the largest
SampleBytes == {0, 10, 169, 255}

Digests == SeqsUpTo(SampleBytes, MaxDigestLen) \ {<<>>}

\* md5, sha2-256, sha2-512, and two algorithms outside the switch
HashCodes == {213, 18, 19, 17, 22}

MaWith(code, digest) ==
    <<IP4("1.2.3.4"), UDP("1234"), WEBRTC,
      CERTHASH(base16Encode(multihashEncode(digest, code))), P2P(PeerIdText)>>

HelperAddrs ==
    Multiaddrs \cup {MaWith(code, digest) : code \in HashCodes, digest \in Digests}

\* the lines a description can have after its version line
SdpLines == {<<"a=mid:0", "\r">>,
             <<"a=ice-ufrag:", "Zq1x", "\r">>,
             <<"a=ice-pwd:", "engine-generated-pwd", "\r">>}

Descriptions ==
    {[type |-> "offer", hasSdp |-> TRUE, sdp |-> << <<"v=0", "\r">> >> \o lines] :
        lines \in SeqsUpTo(SdpLines, MaxLines)}
      \cup {OfferNoSdp, [type |-> "offer", hasSdp |-> TRUE, sdp |-> <<>>]}

\* what pc.getConfiguration() can hold: no certificate list, an empty one,
\* a certificate without fingerprints, one with a sha-1 fingerprint, and the
\* certificates generateCertificate produces
HelperConfigs ==
    {[hasCertificates |-> FALSE, certificates |-> <<>>],
     [hasCertificates |-> TRUE, certificates |-> <<>>],
     [hasCertificates |-> TRUE, certificates |-> <<[fingerprints |-> <<>>]>>],
     [hasCertificates |-> TRUE,
      certificates |-> <<[fingerprints |->
                            <<[algorithm |-> "sha-1",
                               value |-> <<"0", "a", ":", "1", "1">>]>>]>>]}
      \cup Configurations

Calls ==
    {[NoCall EXCEPT !.fn = fn, !.ma = ma] :
        fn \in {"certhash", "certhashToFingerprint"}, ma \in HelperAddrs}
      \cup {[NoCall EXCEPT !.fn = "fromMultiAddr", !.ma = ma, !.ufrag = ufrag] :
              ma \in HelperAddrs, ufrag \in Ufrags}
      \cup {[NoCall EXCEPT !.fn = "munge", !.desc = desc, !.ufrag = ufrag] :
              desc \in Descriptions, ufrag \in Ufrags}
      \cup {[NoCall EXCEPT !.fn = "generateNoisePrologue", !.config = config, !.ma = ma] :
              config \in HelperConfigs, ma \in Multiaddrs}

Certhash ==
    /\ call.fn = "certhash" /\ result = <<>>
    /\ result' = <<certhash(call.ma)>>
    /\ UNCHANGED <<attempts, att, listenerThrown, filterIn, filterOut, filterDone, call>>

CerthashToFingerprint ==
    /\ call.fn = "certhashToFingerprint" /\ result = <<>>
    /\ result' = <<certhashToFingerprint(call.ma)>>
    /\ UNCHANGED <<attempts, att, listenerThrown, filterIn, filterOut, filterDone, call>>

FromMultiAddr ==
    /\ call.fn = "fromMultiAddr" /\ result = <<>>
    /\ result' = <<fromMultiAddr(call.ma, call.ufrag)>>
    /\ UNCHANGED <<attempts, att, listenerThrown, filterIn, filterOut, filterDone, call>>

\* munge assigns to desc.sdp and returns desc: the caller's description is
\* the one returned; a second call is made on it with the same ufrag
Munge ==
    /\ call.fn = "munge" /\ Len(result) < 2
    /\ result # <<>> => ~Threw(result[1])
    /\ LET munged == munge(call.desc, call.ufrag)
       IN  /\ result' = Append(result, munged)
           /\ call' = IF Threw(munged) THEN call
                      ELSE [call EXCEPT !.desc = munged.val]
    /\ UNCHANGED <<attempts, att, listenerThrown, filterIn, filterOut, filterDone>>

GenerateNoisePrologue ==
    /\ call.fn = "generateNoisePrologue" /\ result = <<>>
    /\ result' = <<generateNoisePrologue(call.config, call.ma)>>
    /\ UNCHANGED <<attempts, att, listenerThrown, filterIn, filterOut, filterDone, call>>

HelperInit ==
    /\ attempts = {}
    /\ att = [d \in Dials |-> IdleAttempt]
    /\ listenerThrown = NoErr
    /\ filterIn = <<>>
    /\ filterOut = <<>>
    /\ filterDone = TRUE
    /\ call \in Calls
    /\ result = <<>>

HelperNext ==
    \/ Certhash
    \/ CerthashToFingerprint
    \/ FromMultiAddr
    \/ Munge
    \/ GenerateNoisePrologue

HelperSpec == HelperInit /\ [][HelperNext]_vars

---------------------------------------------------------------------------
(* Vocabulary of the properties *)

Count(seq, x) == Cardinality({i \in 1..Len(seq) : seq[i] = x})

HasCode(ma, code) == \E i \in 1..Len(ma) : ma[i].code = code

Started(a) == a.pc # "idle"

Settled(a) == a.pc \in {"thrown", "returned"}

\* setRemoteDescription has resolved: the attempt has come to the wait for
\* the data channel
ReachedWait(a) == a.remoteDescription.type # "none"

TimeoutError(a) ==
    /\ a.err.kind = "DataChannelError"
    /\ a.err.msg = "data channel was never opened: state: "
    /\ a.err.detail \in {"connecting", "closing", "closed"}

\* the multihash of the local certificate's fingerprint and the multihash
\* the certhash of the dialled address holds
LocalMultihash(a) ==
    multihashEncode(
        hexPairs(removeAll(a.config.certificates[1].fingerprints[1].value, ":")),
        18)

RemoteMultihash(a) == hexPairs(Tail(certhash(a.ma).val))

\* the two fingerprints with their roles exchanged: a certificate whose
\* fingerprint is the digest of multihash mh, an address whose certhash is mh
ConfigOf(mh) ==
    [hasCertificates |-> TRUE,
     certificates |-> <<Certificate(joinPairs(hexEncode(SubSeq(mh, 3, Len(mh)))))>>]

WithCerthash(ma, mh) ==
    [i \in 1..Len(ma) |->
        IF ma[i].code = CERTHASH_CODE THEN CERTHASH(base16Encode(mh)) ELSE ma[i]]

---------------------------------------------------------------------------
(* C1: for fingerprints F1 < F2 (byte-lexicographic) the prologue is       *)
(* "libp2p-webrtc-noise:" + F1 + F2 whichever of the two is the local      *)
(* certificate's and whichever the remote address's.                       *)
C1_PrologueAscending ==
    \A d \in Dials :
      LET a == att[d] IN
      a.prologue # <<>> =>
        LET local  == LocalMultihash(a)
            remote == RemoteMultihash(a)
            F1     == IF bytesLess(local, remote) THEN local ELSE remote
            F2     == IF bytesLess(local, remote) THEN remote ELSE local
        IN  F1 # F2 =>
              /\ a.prologue = NoisePrefix \o F1 \o F2
              /\ remote[1] = 18 =>
                   generateNoisePrologue(ConfigOf(remote), WithCerthash(a.ma, local))
                     = Ok(a.prologue)

---------------------------------------------------------------------------
---------------------------------------------------------------------------
(* C10: the handshake timer is cancelled on every outcome of the attempt   *)
(* other than the timeout: once the attempt has settled the timer is no    *)
(* longer armed, so its callback cannot run after the settlement.          *)
C10_TimerCancelledOnSettlement ==
    \A d \in Dials : Settled(att[d]) => att[d].timer.state # "armed"

---------------------------------------------------------------------------
(* C2: when the timer expires before the data channel has fired open or    *)
(* error, the wait is rejected with the DataChannelError of the timeout    *)
(* and an attempt that has come to the wait fails with it; a later open    *)
(* changes nothing: the attempt stays failed with the same error, and      *)
(* neither the handshake nor the upgrade is ever invoked.                  *)
C2_TimeoutSettlesOnce ==
    /\ [](\A d \in Dials :
            LET a == att[d] IN
            a.first = "timeout" =>
              /\ a.promise.state = "rejected"
              /\ a.promise.reason.kind = "DataChannelError"
              /\ Count(a.calls, "secureInbound") = 0
              /\ Count(a.calls, "upgradeOutbound") = 0
              /\ a.connection = <<>>
              /\ ReachedWait(a) =>
                   /\ a.pc = "thrown"
                   /\ TimeoutError(a)
                   /\ a.err = a.promise.reason)
    /\ [][\A d \in Dials :
            (att[d].first = "timeout" /\ att[d].pc = "thrown") =>
              /\ att'[d].pc = "thrown"
              /\ att'[d].err = att[d].err
              /\ att'[d].promise = att[d].promise]_vars

\* the timer expired first, the attempt failed at the wait, and the channel
\* opened afterwards
C2_Witness ==
    \E d \in Dials :
      /\ att[d].first = "timeout"
      /\ ReachedWait(att[d])
      /\ att[d].readyState = "open"
      /\ att[d].pc = "thrown"

---------------------------------------------------------------------------
(* C3: the wait for the data channel is settled once, by the first of      *)
(* open, error and timeout: open lets the attempt go on to the handshake,  *)
(* error fails it with DataChannelError and the error text, timeout fails  *)
(* it with DataChannelError and the ready state of the channel; an event   *)
(* after the first changes neither the settlement nor the outcome.         *)
C3_FirstEventSettles ==
    /\ [](\A d \in Dials :
            LET a == att[d] IN
            /\ a.first = "none" =>
                 /\ a.promise.state \in {"none", "pending"}
                 /\ ReachedWait(a) => a.pc = "dataChannelOpenPromise"
            /\ a.first = "open" =>
                 /\ a.promise.state = "resolved"
                 /\ ReachedWait(a) => Count(a.calls, "secureInbound") = 1
            /\ a.first = "error" =>
                 /\ a.promise.state = "rejected"
                 /\ \E ev \in ErrorEvents :
                      a.promise.reason =
                        dataChannelError("error opening datachannel: ", ev)
            /\ a.first = "timeout" =>
                 /\ a.promise.state = "rejected"
                 /\ \E rs \in {"connecting", "closing", "closed"} :
                      a.promise.reason =
                        dataChannelError("data channel was never opened: state: ", rs)
            /\ (a.first \in {"error", "timeout"} /\ ReachedWait(a)) =>
                 /\ a.pc = "thrown"
                 /\ a.err = a.promise.reason
                 /\ Count(a.calls, "secureInbound") = 0)
    /\ [][\A d \in Dials :
            /\ (att[d].first = "none" /\ att'[d].first = "timeout") =>
                 att'[d].promise.reason.detail = att[d].readyState
            /\ att[d].promise.state \in {"resolved", "rejected"} =>
                 att'[d].promise = att[d].promise
            /\ (att[d].first # "none" /\ Settled(att[d])) =>
                 (att'[d].pc = att[d].pc /\ att'[d].err = att[d].err)]_vars

\* open came first and the attempt went on to the handshake; the error
\* event fired afterwards
C3_Witness ==
    \E d \in Dials :
      /\ att[d].first = "open"
      /\ att[d].errored
      /\ Count(att[d].calls, "secureInbound") = 1

---------------------------------------------------------------------------
(* C4: a dial of an address with an IP, a UDP port, the webrtc marker, a   *)
(* SHA-256 certhash and a peer identity, with an environment that          *)
(* cooperates (the channel opens, every call resolves), eventually         *)
(* returns the upgraded connection, and the connection wrapper handed to   *)
(* the upgrade step has the dialled address as its remote address.         *)
GoodAddress(ma) ==
    /\ HasCode(ma, 4)
    /\ HasCode(ma, 273)
    /\ HasCode(ma, WEBRTC_CODE)
    /\ HasCode(ma, 421)
    /\ \E i \in 1..Len(ma) :
         /\ ma[i].code = CERTHASH_CODE
         /\ ~Threw(mbdecode(ma[i].value))
         /\ ~Threw(multihashDecode(mbdecode(ma[i].value).val))
         /\ multihashDecode(mbdecode(ma[i].value).val).val.name = "sha2-256"

C4_GoodDialUpgrades ==
    /\ [](\A d \in Dials :
            /\ att[d].upgradeArg # <<>> =>
                 att[d].upgradeArg = <<[remoteAddr |-> att[d].ma]>>
            /\ att[d].pc = "returned" =>
                 Count(att[d].calls, "upgradeOutbound") = 1)
    /\ \A d \in Dials :
         (Started(att[d]) /\ GoodAddress(att[d].ma))
           ~> (att[d].pc = "returned" \/ att[d].fault)

C4_Witness ==
    \E d \in Dials :
      /\ att[d].pc = "returned"
      /\ GoodAddress(att[d].ma)
      /\ ~att[d].fault
      /\ att[d].upgradeArg[1].remoteAddr = MaComplete

---------------------------------------------------------------------------
(* C6: filter returns, in input order, exactly the addresses that have     *)
(* the webrtc code (280), the certhash code (466) and a peer identity; it  *)
(* leaves its input as it was, returns the empty array when no address     *)
(* qualifies, and of the four addresses of the test returns the complete   *)
(* one alone.                                                              *)
Dialable(ma) == HasCode(ma, 280) /\ HasCode(ma, 466) /\ HasCode(ma, 421)

Qualifying == {i \in 1..Len(filterIn) : Dialable(filterIn[i])}

\* the k-th qualifying position of the input
Kth(k) == CHOOSE i \in Qualifying : Cardinality({j \in Qualifying : j <= i}) = k

C6_FilterKeepsDialable ==
    /\ [](filterDone =>
            /\ Len(filterOut) = Cardinality(Qualifying)
            /\ \A k \in 1..Len(filterOut) : filterOut[k] = filterIn[Kth(k)]
            /\ Qualifying = {} => filterOut = <<>>
            /\ filterIn = <<MaNoPeerId, MaComplete, MaNoCerthash, MaNoWebrtc>> =>
                 filterOut = <<MaComplete>>)
    /\ [][filterIn' = filterIn]_vars

C6_Witness ==
    /\ filterDone
    /\ filterIn = <<MaNoPeerId, MaComplete, MaNoCerthash, MaNoWebrtc>>
    /\ filterOut = <<MaComplete>>

---------------------------------------------------------------------------
(* C7: createListener can be called in every state and with every          *)
(* options, throws Unimplemented naming the operation every time, and      *)
(* leaves the state of the transport and of its dial attempts as it was.   *)
C7_CreateListenerUnimplemented ==
    /\ [](/\ \A options \in ListenerOptions : ENABLED CreateListener(options)
          /\ listenerThrown # NoErr =>
               /\ listenerThrown.kind = "Unimplemented"
               /\ listenerThrown.msg = "WebRTCTransport.createListener")
    /\ [][((\E options \in ListenerOptions : CreateListener(options))
            \/ listenerThrown' # listenerThrown) =>
             /\ listenerThrown'.kind = "Unimplemented"
             /\ att' = att
             /\ attempts' = attempts
             /\ <<filterIn, filterOut, filterDone>>' = <<filterIn, filterOut, filterDone>>
             /\ <<call, result>>' = <<call, result>>]_vars

\* createListener has thrown while a dial was in its handshake
C7_Witness ==
    /\ listenerThrown.kind = "Unimplemented"
    /\ \E d \in Dials : att[d].pc = "secureInbound"

---------------------------------------------------------------------------
(* C8: when the secure-channel handshake fails the dial fails with that    *)
(* very failure, the handshake has been invoked once and the upgrade step  *)
(* not at all.                                                             *)
C8_HandshakeFailureVerbatim ==
    \A d \in Dials :
      LET a == att[d] IN
      a.rejection \in NoiseErrors =>
        /\ a.pc = "thrown"
        /\ a.err = a.rejection
        /\ Count(a.calls, "secureInbound") = 1
        /\ Count(a.calls, "upgradeOutbound") = 0
        /\ a.upgradeArg = <<>>
        /\ a.connection = <<>>

C8_Witness ==
    \E d \in Dials : att[d].rejection \in NoiseErrors /\ att[d].pc = "thrown"

---------------------------------------------------------------------------
(* C9: within one attempt certificate generation, offer creation, the two  *)
(* description installations, the handshake and the upgrade are each       *)
(* invoked at most once, and after the attempt has failed nothing more is  *)
(* invoked.                                                                *)
Steps == {"generateCertificate", "createOffer", "setLocalDescription",
          "setRemoteDescription", "secureInbound", "upgradeOutbound"}

C9_NoRetry ==
    /\ [](\A d \in Dials : \A op \in Steps : Count(att[d].calls, op) <= 1)
    /\ [][\A d \in Dials :
            att[d].pc = "thrown" =>
              (att'[d].pc = "thrown" /\ att'[d].calls = att[d].calls)]_vars

\* the local description was refused, and the data channel opened afterwards
C9_Witness ==
    \E d \in Dials :
      /\ att[d].pc = "thrown"
      /\ att[d].rejection = EngineError("setLocalDescription")
      /\ att[d].readyState = "open"

---------------------------------------------------------------------------
(* C11: two attempts dialling at the same time share no mutable state: a   *)
(* step or event of one leaves every field of the other as it was, an      *)
(* attempt fails only when its own environment failed it, an attempt whose *)
(* own channel has fired nothing keeps waiting whatever the other has      *)
(* done, and the two never hold the same ufrag.                            *)
C11_AttemptsIndependent ==
    /\ [][\A d \in Dials :
            att'[d] # att[d] => \A e \in Dials \ {d} : att'[e] = att[e]]_vars
    /\ [](\A d \in Dials :
            LET a == att[d] IN
            /\ (a.pc = "thrown" /\ HasCode(a.ma, 421)) => a.fault
            /\ (ReachedWait(a) /\ a.first = "none") =>
                 a.pc = "dataChannelOpenPromise"
            /\ \A e \in Dials \ {d} : a.ufrag # "" => a.ufrag # att[e].ufrag)

\* one attempt timed out at the wait while the other went through
C11_Witness ==
    \E d, e \in Dials :
      /\ d # e
      /\ att[d].first = "timeout" /\ att[d].pc = "thrown" /\ ReachedWait(att[d])
      /\ att[e].pc = "returned" /\ att[e].timer.state = "cleared"

---------------------------------------------------------------------------
(* C12: the steps of an attempt run one after the other, in the order      *)
(* certificate, data channel, offer, local description, remote             *)
(* description, wait, handshake, upgrade: at most one call is pending, the *)
(* channel is created only with the certificate in hand, the answer is     *)
(* handed to the engine only after the munged offer has been installed,    *)
(* the wait begins only after the answer has been installed, the handshake *)
(* is invoked only after the channel has opened, and the upgrade only      *)
(* after the handshake has resolved.                                       *)
Order == <<"generateCertificate", "createDataChannel", "createOffer",
           "setLocalDescription", "setRemoteDescription", "secureInbound",
           "upgradeOutbound">>

Called(a, op) == Count(a.calls, op) > 0

C12_StepsInSequence ==
    /\ [](\A d \in Dials :
            LET a == att[d] IN
            /\ Len(a.calls) <= Len(Order)
            /\ a.calls = SubSeq(Order, 1, Len(a.calls))
            /\ a.pc \in Steps => a.calls[Len(a.calls)] = a.pc
            /\ Called(a, "createDataChannel") =>
                 /\ a.config.hasCertificates
                 /\ a.config.certificates \in {<<c>> : c \in Certificates}
            /\ Called(a, "setRemoteDescription") =>
                 /\ a.localDescription.type = "offer"
                 /\ a.localDescription = a.offer
            /\ (a.pc = "dataChannelOpenPromise" \/ Called(a, "secureInbound")) =>
                 /\ a.remoteDescription.type = "answer"
                 /\ a.remoteDescription = a.answer
            /\ Called(a, "secureInbound") =>
                 /\ a.promise.state = "resolved"
                 /\ a.first = "open"
            /\ Called(a, "upgradeOutbound") => a.rejection \notin NoiseErrors)
    /\ [][\A d \in Dials :
            att'[d].calls # att[d].calls =>
              /\ att[d].pc \in {"idle", "generateCertificate", "createOffer",
                                "setLocalDescription", "setRemoteDescription",
                                "dataChannelOpenPromise", "secureInbound"}
              /\ att[d].calls = SubSeq(att'[d].calls, 1, Len(att[d].calls))
              /\ (Called(att'[d], "upgradeOutbound") /\ ~Called(att[d], "upgradeOutbound")) =>
                   (att[d].pc = "secureInbound" /\ att'[d].rejection = NoErr)]_vars

\* an attempt has gone through all its steps
C12_Witness ==
    \E d \in Dials : att[d].pc = "returned" /\ att[d].calls = Order

---------------------------------------------------------------------------
(* C13: the local description of an attempt is the munged offer, its       *)
(* ice-ufrag and ice-pwd carry the ufrag that the ice-ufrag and ice-pwd of *)
(* the answer installed as remote description carry; the ufrag is          *)
(* generated once in the attempt and no other attempt has it.  (munge      *)
(* rewrites the first line of each kind: in an offer with one media        *)
(* section, which is what a connection with one data channel gives, these  *)
(* are the only ones.)                                                     *)
Credentials(desc, key) ==
    SelectSeq(desc.sdp, LAMBDA line : line # <<>> /\ line[1] = key)

IceKeys == {"a=ice-ufrag:", "a=ice-pwd:"}

C13_SameUfragBothSides ==
    /\ [](\A d \in Dials :
            LET a == att[d] IN
            /\ a.localDescription.type # "none" =>
                 /\ \E o \in Offers : munge(o, a.ufrag) = Ok(a.localDescription)
                 /\ \A key \in IceKeys :
                      LET own == Credentials(a.localDescription, key)
                      IN  /\ own # <<>>
                          /\ own[1] = <<key, a.ufrag>>
                          /\ \A o \in Offers :
                               (munge(o, a.ufrag) = Ok(a.localDescription)
                                  /\ Len(Credentials(o, key)) = 1) =>
                                 own = << <<key, a.ufrag>> >>
            /\ a.remoteDescription.type # "none" =>
                 /\ a.remoteDescription = fromMultiAddr(a.ma, a.ufrag).val
                 /\ \A key \in IceKeys :
                      /\ Credentials(a.remoteDescription, key) = << <<key, a.ufrag>> >>
                      /\ Credentials(a.localDescription, key)[1]
                           = Credentials(a.remoteDescription, key)[1]
            /\ a.localDescription.type # "none" => a.ufrag \in Ufrags
            /\ \A e \in Dials \ {d} : a.ufrag # "" => att[e].ufrag # a.ufrag)
    /\ [][\A d \in Dials :
            att[d].ufrag # "" => att'[d].ufrag = att[d].ufrag]_vars

\* both attempts have installed their two descriptions
C13_Witness ==
    /\ \A d \in Dials : att[d].remoteDescription.type = "answer"
    /\ att[1].ufrag # att[2].ufrag
    /\ \E d \in Dials : Len(Credentials(att[d].localDescription, "a=ice-ufrag:")) = 1

---------------------------------------------------------------------------
(* C14: for an address whose certhash has a supported algorithm and for    *)
(* every ufrag, fromMultiAddr returns a description of type "answer"       *)
(* whose text has exactly one ice-ufrag line and exactly one ice-pwd line, *)
(* both carrying the ufrag, and exactly one fingerprint line, carrying the *)
(* display string certhashToFingerprint derives from the address.          *)
Returned(fn) == call.fn = fn /\ result # <<>>

C14_AnswerFields ==
    (Returned("fromMultiAddr") /\ ~Threw(certhashToFingerprint(call.ma))) =>
      /\ ~Threw(result[1])
      /\ result[1].val.type = "answer"
      /\ result[1].val.hasSdp
      /\ Credentials(result[1].val, "a=ice-ufrag:")
           = << <<"a=ice-ufrag:", call.ufrag>> >>
      /\ Credentials(result[1].val, "a=ice-pwd:")
           = << <<"a=ice-pwd:", call.ufrag>> >>
      /\ Credentials(result[1].val, "a=fingerprint:")
           = << <<"a=fingerprint:">> \o certhashToFingerprint(call.ma).val.display >>

\* an answer was synthesized for an address with an md5 certhash
C14_Witness ==
    /\ Returned("fromMultiAddr")
    /\ ~Threw(result[1])
    /\ call.ma = MaWith(213, <<10, 255>>)
    /\ Credentials(result[1].val, "a=fingerprint:")
         = << <<"a=fingerprint:", "MD5", " ", "0", "A", ":", "F", "F">> >>

---------------------------------------------------------------------------
(* C15: munge rewrites the first ice-ufrag line and the first ice-pwd line *)
(* of the text to carry the ufrag and leaves every other line, however     *)
(* many more ice-ufrag and ice-pwd lines there are, as it was; munge       *)
(* applied again with the same ufrag returns the text of the first         *)
(* application.                                                            *)
Hits(lines, key) == {i \in 1..Len(lines) : lines[i] # <<>> /\ lines[i][1] = key}

FirstHit(lines, key) == CHOOSE i \in Hits(lines, key) : \A j \in Hits(lines, key) : i <= j

C15_MungeFirstOnly ==
    /\ [][(call.fn = "munge" /\ result' # result /\ ~Threw(result'[Len(result')])) =>
            LET before == call.desc.sdp
                after  == result'[Len(result')].val.sdp
                firsts == {FirstHit(before, key) :
                             key \in {k \in IceKeys : Hits(before, k) # {}}}
            IN  /\ Len(after) = Len(before)
                /\ \A key \in IceKeys :
                     /\ Hits(after, key) = Hits(before, key)
                     /\ Hits(before, key) # {} =>
                          after[FirstHit(before, key)] = <<key, call.ufrag>>
                /\ \A i \in 1..Len(before) : i \notin firsts => after[i] = before[i]
                /\ result'[Len(result')].val.type = call.desc.type
                /\ call'.desc = result'[Len(result')].val]_vars
    /\ [](/\ (Returned("munge") /\ Len(result) = 2) => result[2] = result[1]
          /\ (Returned("munge") /\ ~Threw(result[1])) => call.desc = result[Len(result)].val)

\* munge was applied twice to a text with two ice-ufrag and two ice-pwd
\* lines: the second of each still has what the engine wrote
C15_Witness ==
    /\ Returned("munge") /\ Len(result) = 2
    /\ Credentials(call.desc, "a=ice-ufrag:")
         = << <<"a=ice-ufrag:", call.ufrag>>, <<"a=ice-ufrag:", "Zq1x", "\r">> >>
    /\ Credentials(call.desc, "a=ice-pwd:")
         = << <<"a=ice-pwd:", call.ufrag>>,
              <<"a=ice-pwd:", "engine-generated-pwd", "\r">> >>

---------------------------------------------------------------------------
(* C16: for each of md5, sha2-256, sha2-512 and every digest D, the        *)
(* fingerprint derived from the base16 multibase text of the multihash of  *)
(* (D, algorithm) has the display string "<ALGORITHM> <the bytes of D as   *)
(* upper-case hex pairs joined by colons>" and, as its second part, the    *)
(* bytes of D.                                                             *)
Supported == {213, 18, 19}

DisplayName(code) ==
    CASE code = 213 -> "MD5" [] code = 18 -> "SHA-256" [] code = 19 -> "SHA-512"

RECURSIVE ColonPairs(_)
ColonPairs(bytes) ==
    LET pair == <<UpperDigits[(Head(bytes) \div 16) + 1],
                  UpperDigits[(Head(bytes) % 16) + 1]>>
    IN  IF Len(bytes) = 1 THEN pair
        ELSE pair \o <<":">> \o ColonPairs(Tail(bytes))

\* x is the byte array D
SameBytes(x, D) ==
    /\ Len(x) = Len(D)
    /\ \A i \in 1..Len(D) : x[i] = D[i]

C16_DisplayIsHexOfDigest ==
    \A code \in Supported, D \in Digests :
      (Returned("certhashToFingerprint") /\ call.ma = MaWith(code, D)) =>
        /\ ~Threw(result[1])
        /\ result[1].val.display = <<DisplayName(code), " ">> \o ColonPairs(D)

C16_FingerprintRoundTrip ==
    /\ C16_DisplayIsHexOfDigest
    /\ \A code \in Supported, D \in Digests :
         (Returned("certhashToFingerprint") /\ call.ma = MaWith(code, D)) =>
           SameBytes(result[1].val.fp, D)

---------------------------------------------------------------------------
(* C17: deriving the fingerprint from a certhash whose multihash has an    *)
(* algorithm other than md5, sha2-256 and sha2-512 fails with              *)
(* UnsupportedHashAlgorithm naming that algorithm; nothing is returned, no *)
(* display string and no digest, and no answer is synthesized from such an *)
(* address.                                                                *)
AlgorithmOf(ma) ==
    IF Threw(certhash(ma)) \/ Threw(mbdecode(certhash(ma).val)) THEN ""
    ELSE IF Threw(multihashDecode(mbdecode(certhash(ma).val).val)) THEN ""
    ELSE multihashDecode(mbdecode(certhash(ma).val).val).val.name

Unsupported(ma) == AlgorithmOf(ma) \notin {"", "md5", "sha2-256", "sha2-512"}

C17_UnsupportedAlgorithmRejected ==
    ((Returned("certhashToFingerprint") \/ Returned("fromMultiAddr"))
       /\ Unsupported(call.ma)) =>
      /\ Threw(result[1])
      /\ result[1].err.kind = "UnsupportedHashAlgorithm"
      /\ result[1].err.msg = AlgorithmOf(call.ma)
      /\ result[1].val = <<>>

\* the fingerprint of a sha3-256 certhash was asked for
C17_Witness ==
    /\ Returned("certhashToFingerprint")
    /\ call.ma = MaWith(22, <<169, 0>>)
    /\ result[1].err = unsupportedHashAlgorithm("sha3-256")

---------------------------------------------------------------------------
(* C18: generateNoisePrologue fails with InvalidArgument and returns no    *)
(* bytes when the connection has no certificate or its certificate has no  *)
(* fingerprint; the reason is 'no local certificate' whenever there is no  *)
(* certificate, the list being empty or absent, and 'no fingerprint on     *)
(* local certificate' only when there is a certificate and it reports no   *)
(* fingerprint.                                                            *)
NoCertificate(config) == ~config.hasCertificates \/ config.certificates = <<>>

NoFingerprint(config) ==
    ~NoCertificate(config) /\ config.certificates[1].fingerprints = <<>>

C18_CertificateReasons ==
    Returned("generateNoisePrologue") =>
      /\ (NoCertificate(call.config) \/ NoFingerprint(call.config)) =>
           /\ Threw(result[1])
           /\ result[1].err.kind = "InvalidArgument"
           /\ result[1].val = <<>>
      /\ NoCertificate(call.config) =>
           result[1].err = invalidArgument("no local certificate")
      /\ result[1].err = invalidArgument("no fingerprint on local certificate") =>
           NoFingerprint(call.config)

---------------------------------------------------------------------------
(* C19: certhash fails with InappropriateAddress on an address without a   *)
(* certhash component and returns the value of the component, as it is in  *)
(* the address, when there is exactly one.                                 *)
CerthashValues(ma) ==
    LET tups == SelectSeq(ma, LAMBDA c : c.code = 466)
    IN  [i \in 1..Len(tups) |-> tups[i].value]

C19_CerthashOrInappropriate ==
    Returned("certhash") =>
      /\ CerthashValues(call.ma) = <<>> =>
           /\ Threw(result[1])
           /\ result[1].err.kind = "InappropriateAddress"
           /\ result[1].val = <<>>
      /\ Len(CerthashValues(call.ma)) = 1 =>
           result[1] = Ok(CerthashValues(call.ma)[1])

\* certhash was applied to the address of the test that has none
C19_Witness ==
    /\ Returned("certhash")
    /\ call.ma = MaNoCerthash
    /\ result[1].err.kind = "InappropriateAddress"

---------------------------------------------------------------------------
(* C20: when the offer the engine returns has no SDP body, munge fails     *)
(* with InvalidArgument and leaves the offer as it was, and the attempt    *)
(* ends there: neither a local nor a remote description is installed, and  *)
(* neither installation is invoked.                                        *)
NoBody(desc) == desc.type # "none" /\ (~desc.hasSdp \/ desc.sdp = <<>>)

C20_MissingSdpEndsAttempt ==
    /\ [](\A d \in Dials :
            LET a == att[d] IN
            NoBody(a.offer) =>
              /\ a.pc = "thrown"
              /\ a.err = invalidArgument("Can't munge a missing SDP")
              /\ a.offer = OfferNoSdp
              /\ a.localDescription = NoDescription
              /\ a.answer = NoDescription
              /\ a.remoteDescription = NoDescription
              /\ ~Called(a, "setLocalDescription")
              /\ ~Called(a, "setRemoteDescription")
              /\ ~Called(a, "secureInbound"))
    /\ [][\A d \in Dials :
            NoBody(att[d].offer) =>
              /\ att'[d].offer = att[d].offer
              /\ att'[d].pc = "thrown"
              /\ att'[d].calls = att[d].calls]_vars

\* the offer had no sdp and the channel opened after the attempt had failed
C20_Witness ==
    \E d \in Dials :
      /\ att[d].offer = OfferNoSdp
      /\ att[d].pc = "thrown"
      /\ att[d].readyState = "open"

---------------------------------------------------------------------------
(* C21: an open or error event the channel fires while the offer or the    *)
(* installation of a description is still pending is not lost: the         *)
(* handlers are in place before the first suspension after the channel was *)
(* created, the event settles the promise at once, and when the attempt    *)
(* comes to the wait it goes on to the handshake (open) or fails with the  *)
(* DataChannelError of the error event, and never waits for the timeout.   *)
BeforeWait == {"createOffer", "setLocalDescription", "setRemoteDescription"}

C21_EarlyEventNotLost ==
    /\ [](\A d \in Dials :
            LET a == att[d] IN
            /\ a.pc = "dataChannelOpenPromise" => a.promise.state = "pending"
            /\ (a.first = "open" /\ a.firstAt \in BeforeWait) =>
                 /\ a.promise.state = "resolved"
                 /\ ReachedWait(a) =>
                      (Called(a, "secureInbound") /\ a.err.kind # "DataChannelError")
            /\ (a.first = "error" /\ a.firstAt \in BeforeWait) =>
                 /\ a.promise.state = "rejected"
                 /\ a.timer.state = "cleared"
                 /\ ReachedWait(a) =>
                      /\ a.pc = "thrown"
                      /\ \E ev \in ErrorEvents :
                           a.err = dataChannelError("error opening datachannel: ", ev))
    /\ [][\A d \in Dials :
            (att[d].pc = "setRemoteDescription" /\ ReachedWait(att'[d])) =>
              /\ att[d].promise.state = "resolved" => att'[d].pc = "secureInbound"
              /\ att[d].promise.state = "rejected" =>
                   (att'[d].pc = "thrown" /\ att'[d].err = att[d].promise.reason)
              /\ att[d].promise.state = "pending" =>
                   att'[d].pc = "dataChannelOpenPromise"]_vars

\* the channel opened while the offer was being created, and the attempt
\* has gone from the remote description straight to the handshake
C21_Witness ==
    \E d \in Dials :
      /\ att[d].first = "open"
      /\ att[d].firstAt = "createOffer"
      /\ att[d].pc = "secureInbound"
      /\ att[d].timer.state = "cleared"

---------------------------------------------------------------------------
(* C22: the handshake timer is armed in the step that creates the data     *)
(* channel, before the offer is requested, and can expire while the offer  *)
(* or the installation of a description is pending; the expiry leaves the  *)
(* pending step and what follows it up to the installation of the remote   *)
(* description running; the attempt fails with the DataChannelError of the *)
(* timeout when it comes to the wait, or earlier with the error of a step  *)
(* that fails.                                                             *)
C22_EarlyExpiryDeferred ==
    /\ [](\A d \in Dials :
            LET a == att[d] IN
            /\ (a.pc = "createOffer" /\ a.first = "none") =>
                 a.timer = [state |-> "armed", delay |-> HANDSHAKE_TIMEOUT_MS]
            /\ (a.first = "timeout" /\ a.firstAt \in BeforeWait) =>
                 /\ a.pc \in BeforeWait \cup {"thrown"}
                 /\ a.promise.state = "rejected"
                 /\ a.pc = "createOffer" =>
                      \A offerSdp \in Offers, ufrag \in Ufrags :
                        ENABLED CreateOfferResolves(d, offerSdp, ufrag)
                 /\ a.pc = "setLocalDescription" => ENABLED SetLocalDescriptionResolves(d)
                 /\ a.pc = "setRemoteDescription" => ENABLED SetRemoteDescriptionResolves(d)
                 /\ ReachedWait(a) =>
                      /\ a.pc = "thrown"
                      /\ TimeoutError(a)
                      /\ a.err = a.promise.reason
                      /\ Called(a, "setRemoteDescription")
                      /\ ~Called(a, "secureInbound")
                 /\ (a.pc = "thrown" /\ ~ReachedWait(a)) =>
                      /\ a.err.kind # "DataChannelError"
                      /\ \/ a.err = a.rejection
                         \/ a.err = invalidArgument("Can't munge a missing SDP")
                         \/ a.err.kind = "UnsupportedHashAlgorithm"
                         \/ a.err.kind = "InappropriateAddress")
    /\ [][\A d \in Dials :
            /\ (~Called(att[d], "createDataChannel")
                  /\ Called(att'[d], "createDataChannel")) =>
                 /\ att'[d].timer.state = "armed"
                 /\ att'[d].pc = "createOffer"
                 /\ att'[d].offer = NoDescription
            /\ (att[d].pc \in BeforeWait /\ att[d].timer.state = "armed"
                  /\ att'[d].timer.state = "fired") =>
                 /\ att'[d].pc = att[d].pc
                 /\ att'[d].calls = att[d].calls
                 /\ att'[d].err = att[d].err]_vars

\* the timer expired while the offer was being created; the offer and the
\* two descriptions were dealt with, and the attempt failed at the wait
C22_Witness ==
    \E d \in Dials :
      /\ att[d].first = "timeout"
      /\ att[d].firstAt = "createOffer"
      /\ ReachedWait(att[d])
      /\ att[d].pc = "thrown"
      /\ TimeoutError(att[d])

====
